---- MODULE Spec2Model ----
(***************************************************************************)
(* Model of service::caller::make_get_request (src/src/service/caller.rs): *)
(* an authenticated GET with a bounded retry on timeout.  Several calls    *)
(* run interleaved; each call suspends at its two await points (the        *)
(* request in flight, the retry delay).  The body of a response is then    *)
(* decoded into domain records (data_pull::serde_models), one record of   *)
(* the collection after the other.                                         *)
(***************************************************************************)
EXTENDS Integers, Sequences, FiniteSets, TLC

VARIABLES pc, url, args, attempts, sent, inflight, delays, logs, result, trace

\* The decoder: the raw collection being decoded, the record it is at, the
\* records decoded so far and the result.
VARIABLES dinput, dpos, dout, dresult

fetchVars == <<pc, url, args, attempts, sent, inflight, delays, logs, result, trace>>

decVars == <<dinput, dpos, dout, dresult>>

vars == <<pc, url, args, attempts, sent, inflight, delays, logs, result, trace,
          dinput, dpos, dout, dresult>>

----------------------------------------------------------------------------
(* Bounds and input domains *)

NumCalls == 2

Calls == 1..NumCalls

\* Option<T>: None is the empty sequence, Some(x) the one-element sequence.
None == <<>>

Some(x) == <<x>>

NoUrl == ""

\* The (url, args) pairs calls are made with: an endpoint called without
\* arguments and one called with them.
Inputs == {<<"getLeagues", None>>, <<"getTeams", Some(<<"hl", "en-US">>)>>}

URLs == {rq[1] : rq \in Inputs}

\* args: Option<&T>, T a flat struct of named fields.
ArgValues == {rq[2] : rq \in Inputs}

\* HTTP statuses a server may answer with (2xx, 4xx, 5xx).
Statuses == {200, 404, 500}

\* reqwest::Error kinds an attempt may fail with; only "timeout" is_timeout().
SendErrorKinds == {"timeout", "connect", "redirect"}

----------------------------------------------------------------------------
(* Values *)

\* let mut attempts = 2;
InitialAttempts == 2

\* .header("x-api-key", ...)
ApiKeyHeader == <<"x-api-key", "0TvQnueqKa5mxJntVWt0w4LpLfEkrV1Ta8rQBb9Z">>

\* The response received by attempt n.
Response(s, n) == [status |-> s, attempt |-> n]

\* The reqwest::Error of attempt n (attempt 0: the client builder).
ReqwestError(k, n) == [kind |-> k, attempt |-> n]

\* Mutant: connection failures classified as timeouts too.
IsTimeoutOrConnect(e) == e.kind \in {"timeout", "connect"}

\* e.is_timeout()
IsTimeout(e) == e.kind = "timeout"

\* An entry of a call's history: what happened, and for a response its status.
Event(name, s) == [ev |-> name, status |-> s]

\* Result<Response>
Pending == [tag |-> "Pending", val |-> None]

Ok(r) == [tag |-> "Ok", val |-> Some(r)]

Err(report) == [tag |-> "Err", val |-> Some(report)]

\* `?` on build(): the error converted to a report as it is, no context added.
FromError(e) == [context |-> None, cause |-> e]

\* Mutant: the context replaces the error instead of wrapping it.
WithContextDropsCause(e, u, a) ==
    [context |-> <<[url |-> u, args |-> a]>>, cause |-> [kind |-> "context", attempt |-> 0]]

\* .with_context(|| format!("...{url:?} with args -> {args:?}")): the error
\* wrapped in a message holding the url and the arguments, e kept as source.
WithContext(e, u, a) == [context |-> Some([url |-> u, args |-> a]), cause |-> e]

\* println!("{} - Request to {} with args {:?} timed out ", now, &url, args)
LogLine(u, a) == [url |-> u, args |-> a]

\* Mutant: the query is never attached.
BuildRequestNoQuery(u, a) ==
    [method |-> "GET", url |-> u, header |-> ApiKeyHeader, query |-> <<>>]

\* client.get(url).header(..), then .query(arguments) if let Some(arguments).
BuildRequest(u, a) ==
    [method |-> "GET",
     url    |-> u,
     header |-> ApiKeyHeader,
     query  |-> IF a # None THEN Some(a[1]) ELSE None]

\* Mutant: the budget test off by one (>= 0).
ShouldRetryOffByOne(e, remaining) == e.kind = "timeout" /\ remaining >= 0

\* Mutant: the budget alone decides, whatever the error.
ShouldRetryAnyError(e, remaining) == remaining > 0

\* Mutant: once a timeout has used a retry, any error is retried.
ShouldRetryStickyTimeout(e, remaining) ==
    remaining > 0 /\ (e.kind = "timeout" \/ remaining < 2)

\* Mutant: the last retry is never granted (> 1).
ShouldRetryBudgetOne(e, remaining) == e.kind = "timeout" /\ remaining > 1

\* Mutant: the budget test is <= instead of >: retries are granted only at 0.
ShouldRetryWrongSide(e, remaining) == e.kind = "timeout" /\ remaining <= 0

\* if e.is_timeout() && attempts > 0
ShouldRetry(e, remaining) == IsTimeout(e) /\ remaining > 0

\* Mutant: the decrement is forgotten.
DecrementForgotten(c) == attempts

\* Mutant: one retry counter shared by all calls.
DecrementShared(c) == [d \in Calls |-> IF attempts[d] > 0 THEN attempts[d] - 1 ELSE 0]

\* Mutant: the counter is decremented by 2.
DecrementByTwo(c) == [attempts EXCEPT ![c] = @ - 2]

\* attempts -= 1, on the counter of call c alone (a local of the call).
DecrementAttempts(c) == [attempts EXCEPT ![c] = @ - 1]

\* Mutant: a request that has resolved is still counted in flight when the next
\* one is sent.
ResolvedStaysInFlight(c) == inflight

\* The request of call c leaves flight: send().await has resolved (a response,
\* an error, or the client timeout dropping the request).
Resolved(c) == [inflight EXCEPT ![c] = @ - 1]

----------------------------------------------------------------------------
(* Initial state: no call has started. *)

Init ==
    /\ pc = [c \in Calls |-> "idle"]
    /\ url = [c \in Calls |-> NoUrl]
    /\ args = [c \in Calls |-> None]
    /\ attempts = [c \in Calls |-> InitialAttempts]
    /\ sent = [c \in Calls |-> <<>>]
    /\ inflight = [c \in Calls |-> 0]
    /\ delays = [c \in Calls |-> 0]
    /\ logs = [c \in Calls |-> <<>>]
    /\ result = [c \in Calls |-> Pending]
    /\ trace = [c \in Calls |-> <<>>]
    /\ dinput = <<>>
    /\ dpos = 1
    /\ dout = <<>>
    /\ dresult = Pending

----------------------------------------------------------------------------
(* Actions: one per stretch of make_get_request between two await points. *)

\* make_get_request(url, args) is called and the client is built; the retry
\* counter and the delay are set and the loop is entered.
Call(c, u, a) ==
    /\ pc[c] = "idle"
    /\ url' = [url EXCEPT ![c] = u]
    /\ args' = [args EXCEPT ![c] = a]
    /\ attempts' = [attempts EXCEPT ![c] = InitialAttempts]
    /\ pc' = [pc EXCEPT ![c] = "loop"]
    /\ UNCHANGED <<sent, inflight, delays, logs, result, trace, decVars>>

\* Mutant: the client is built lazily, so its failure comes out only once the
\* first request has been handed to it.
CallBuildFailsLate(c, u, a) ==
    /\ pc[c] = "idle"
    /\ url' = [url EXCEPT ![c] = u]
    /\ args' = [args EXCEPT ![c] = a]
    /\ sent' = [sent EXCEPT ![c] = Append(@, BuildRequest(u, a))]
    /\ result' = [result EXCEPT ![c] =
                    [tag |-> "Err",
                     val |-> <<[context |-> <<>>, cause |-> [kind |-> "builder", attempt |-> 0]]>>]]
    /\ pc' = [pc EXCEPT ![c] = "done"]
    /\ UNCHANGED <<attempts, inflight, delays, logs, trace, decVars>>

\* make_get_request(url, args) is called and build()? fails: the error is
\* returned before the loop.
CallBuildFails(c, u, a) ==
    /\ pc[c] = "idle"
    /\ url' = [url EXCEPT ![c] = u]
    /\ args' = [args EXCEPT ![c] = a]
    /\ result' = [result EXCEPT ![c] = Err(FromError(ReqwestError("builder", 0)))]
    /\ pc' = [pc EXCEPT ![c] = "done"]
    /\ UNCHANGED <<attempts, sent, inflight, delays, logs, trace, decVars>>

\* Top of the loop: the request is built and sent; the call awaits the result.
SendRequest(c) ==
    /\ pc[c] = "loop"
    /\ sent' = [sent EXCEPT ![c] = Append(@, BuildRequest(url[c], args[c]))]
    /\ inflight' = [inflight EXCEPT ![c] = @ + 1]
    /\ trace' = [trace EXCEPT ![c] = Append(@, Event("send", 0))]
    /\ pc' = [pc EXCEPT ![c] = "await"]
    /\ UNCHANGED <<url, args, attempts, delays, logs, result, decVars>>

\* Mutant: the status is inspected (error_for_status): 4xx and 5xx become Err.
ReceiveResponseChecksStatus(c, s) ==
    /\ pc[c] = "await"
    /\ inflight' = [inflight EXCEPT ![c] = @ - 1]
    /\ result' = [result EXCEPT ![c] =
                    IF s >= 400
                    THEN [tag |-> "Err",
                          val |-> <<[context |-> <<[url |-> url[c], args |-> args[c]]>>,
                                     cause |-> [kind |-> "status", attempt |-> Len(sent[c])]]>>]
                    ELSE [tag |-> "Ok", val |-> <<[status |-> s, attempt |-> Len(sent[c])]>>]]
    /\ trace' = [trace EXCEPT ![c] = Append(@, [ev |-> "response", status |-> s])]
    /\ pc' = [pc EXCEPT ![c] = "done"]
    /\ UNCHANGED <<url, args, attempts, sent, delays, logs, decVars>>

\* Mutant: a response does not leave the loop while budget remains: the call
\* goes on to the delay and a further attempt.
ReceiveResponseThenRetry(c, s) ==
    /\ pc[c] = "await"
    /\ inflight' = [inflight EXCEPT ![c] = @ - 1]
    /\ result' = [result EXCEPT ![c] = [tag |-> "Ok", val |-> <<[status |-> s, attempt |-> Len(sent[c])]>>]]
    /\ trace' = [trace EXCEPT ![c] = Append(@, [ev |-> "response", status |-> s])]
    /\ IF attempts[c] > 0
         THEN /\ attempts' = [attempts EXCEPT ![c] = @ - 1]
              /\ pc' = [pc EXCEPT ![c] = "sleep"]
         ELSE /\ attempts' = attempts
              /\ pc' = [pc EXCEPT ![c] = "done"]
    /\ UNCHANGED <<url, args, sent, delays, logs, decVars>>

\* Ok(response) => return Ok(response)
ReceiveResponse(c, s) ==
    /\ pc[c] = "await"
    /\ inflight' = Resolved(c)
    /\ result' = [result EXCEPT ![c] = Ok(Response(s, Len(sent[c])))]
    /\ trace' = [trace EXCEPT ![c] = Append(@, Event("response", s))]
    /\ pc' = [pc EXCEPT ![c] = "done"]
    /\ UNCHANGED <<url, args, attempts, sent, delays, logs, decVars>>

\* Err(e) with e.is_timeout() && attempts > 0: the counter is decremented, the
\* line is printed and the call awaits sleep(retry_duration).
ReceiveErrorRetry(c, k) ==
    /\ pc[c] = "await"
    /\ ShouldRetry(ReqwestError(k, Len(sent[c])), attempts[c])
    /\ inflight' = Resolved(c)
    /\ attempts' = DecrementAttempts(c)
    /\ logs' = [logs EXCEPT ![c] = Append(@, LogLine(url[c], args[c]))]
    /\ trace' = [trace EXCEPT ![c] = @ \o <<Event(k, 0), Event("log", 0)>>]
    /\ pc' = [pc EXCEPT ![c] = "sleep"]
    /\ UNCHANGED <<url, args, sent, delays, result, decVars>>

\* Mutant: the line is printed for every timeout, the one that ends the call
\* included.
ReceiveErrorFailLogsTimeout(c, k) ==
    /\ pc[c] = "await"
    /\ ~(k = "timeout" /\ attempts[c] > 0)
    /\ inflight' = [inflight EXCEPT ![c] = @ - 1]
    /\ result' = [result EXCEPT ![c] =
                    [tag |-> "Err",
                     val |-> <<[context |-> <<[url |-> url[c], args |-> args[c]]>>,
                                cause |-> [kind |-> k, attempt |-> Len(sent[c])]]>>]]
    /\ logs' = [logs EXCEPT ![c] =
                  IF k = "timeout" THEN Append(@, [url |-> url[c], args |-> args[c]]) ELSE @]
    /\ trace' = [trace EXCEPT ![c] =
                   IF k = "timeout"
                   THEN @ \o <<[ev |-> k, status |-> 0], [ev |-> "log", status |-> 0]>>
                   ELSE Append(@, [ev |-> k, status |-> 0])]
    /\ pc' = [pc EXCEPT ![c] = "done"]
    /\ UNCHANGED <<url, args, attempts, sent, delays, decVars>>

\* Err(e) otherwise: return Err(e).with_context(..)
ReceiveErrorFail(c, k) ==
    /\ pc[c] = "await"
    /\ ~ShouldRetry(ReqwestError(k, Len(sent[c])), attempts[c])
    /\ inflight' = Resolved(c)
    /\ result' = [result EXCEPT ![c] =
                    Err(WithContext(ReqwestError(k, Len(sent[c])), url[c], args[c]))]
    /\ trace' = [trace EXCEPT ![c] = Append(@, Event(k, 0))]
    /\ pc' = [pc EXCEPT ![c] = "done"]
    /\ UNCHANGED <<url, args, attempts, sent, delays, logs, decVars>>

\* sleep(retry_duration).await completes; the loop goes round.
SleepElapsed(c) ==
    /\ pc[c] = "sleep"
    /\ delays' = [delays EXCEPT ![c] = @ + 1]
    /\ trace' = [trace EXCEPT ![c] = Append(@, Event("delay", 0))]
    /\ pc' = [pc EXCEPT ![c] = "loop"]
    /\ UNCHANGED <<url, args, attempts, sent, inflight, logs, result, decVars>>

\* The steps a started call takes by itself.
Step(c) ==
    \/ SendRequest(c)
    \/ \E s \in Statuses : ReceiveResponse(c, s)
    \/ \E k \in SendErrorKinds : ReceiveErrorRetry(c, k)
    \/ \E k \in SendErrorKinds : ReceiveErrorFail(c, k)
    \/ SleepElapsed(c)

Next ==
    \/ \E c \in Calls, rq \in Inputs : Call(c, rq[1], rq[2])
    \/ \E c \in Calls, rq \in Inputs : CallBuildFails(c, rq[1], rq[2])
    \/ \E c \in Calls : Step(c)

Spec == Init /\ [][Next]_vars

\* Every attempt resolves (the client timeout bounds it) and every sleep
\* elapses, so a started call keeps taking its steps.
FairSpec == Spec /\ \A c \in Calls : WF_vars(Step(c))

----------------------------------------------------------------------------
(* The decoder (data_pull::serde_models), as the design describes it: text  *)
(* is a sequence of characters; an identifier is a 64-bit integer, held    *)
(* here as 4 limbs of 6 decimal digits, most significant first.            *)

MaxRecords == 2

LimbBase == 1000000

\* i64::MAX = 9223372036854775807
MaxI64 == <<9, 223372, 36854, 775807>>

DigitChars == {"0", "1", "2", "3", "4", "5", "6", "7", "8", "9"}

DigitValue(ch) ==
    CASE ch = "0" -> 0 [] ch = "1" -> 1 [] ch = "2" -> 2 [] ch = "3" -> 3
      [] ch = "4" -> 4 [] ch = "5" -> 5 [] ch = "6" -> 6 [] ch = "7" -> 7
      [] ch = "8" -> 8 [] ch = "9" -> 9

\* x <= y, on limbs.
LimbLeq(x, y) ==
    \/ x[1] < y[1]
    \/ x[1] = y[1] /\ x[2] < y[2]
    \/ x[1] = y[1] /\ x[2] = y[2] /\ x[3] < y[3]
    \/ x[1] = y[1] /\ x[2] = y[2] /\ x[3] = y[3] /\ x[4] <= y[4]

\* x * 10 + d, on limbs (the top limb takes the excess).
MulTenAdd(x, d) ==
    LET t4 == x[4] * 10 + d
        t3 == x[3] * 10 + (t4 \div LimbBase)
        t2 == x[2] * 10 + (t3 \div LimbBase)
        t1 == x[1] * 10 + (t2 \div LimbBase)
    IN  <<t1, t2 % LimbBase, t3 % LimbBase, t4 % LimbBase>>

DecodeOk(v) == [ok |-> TRUE, val |-> Some(v), error |-> ""]

DecodeErr(why) == [ok |-> FALSE, val |-> None, error |-> why]

\* The digits of text from position i on, accumulated exactly into acc; a
\* character that is no digit or a value past the 64-bit range is an error.
RECURSIVE ParseDigits(_, _, _)
ParseDigits(text, i, acc) ==
    IF i > Len(text) THEN DecodeOk(acc)
    ELSE IF text[i] \notin DigitChars THEN DecodeErr("invalid digit")
    ELSE LET n == MulTenAdd(acc, DigitValue(text[i]))
         IN  IF ~LimbLeq(n, MaxI64) THEN DecodeErr("integer overflow")
             ELSE ParseDigits(text, i + 1, n)

\* Mutant: the identifier goes through a 64-bit float: from 2^56 on (17
\* digits and more) only multiples of 16 are representable, so the value is
\* rounded to the nearest one.
ParseIdViaFloat(text) ==
    LET r == IF text = <<>> THEN [ok |-> FALSE, val |-> <<>>, error |-> "empty"]
             ELSE ParseDigits(text, 1, <<0, 0, 0, 0>>)
    IN  IF ~r.ok \/ Len(text) < 17 THEN r
        ELSE LET x == r.val[1]
                 low == ((x[4] + 8) \div 16) * 16
             IN  [ok |-> TRUE,
                  val |-> <<(<<x[1], x[2], x[3] + (low \div LimbBase), low % LimbBase>>)>>,
                  error |-> ""]

\* The identifier a numeric text stands for, exactly, or an error.
ParseId(text) ==
    IF text = <<>> THEN DecodeErr("empty") ELSE ParseDigits(text, 1, <<0, 0, 0, 0>>)

\* The number two digit characters stand for.
TwoDigits(a, b) == DigitValue(a) * 10 + DigitValue(b)

IsLeapYear(y) == (y % 4 = 0 /\ y % 100 # 0) \/ y % 400 = 0

DaysInMonth(y, m) ==
    IF m = 2 THEN (IF IsLeapYear(y) THEN 29 ELSE 28)
    ELSE IF m \in {4, 6, 9, 11} THEN 30 ELSE 31

\* Mutant: a date that does not parse becomes the default date.
ParseDateOrDefault(text) ==
    IF /\ Len(text) = 10
       /\ text[5] = "-" /\ text[8] = "-"
       /\ \A i \in {1, 2, 3, 4, 6, 7, 9, 10} : text[i] \in DigitChars
       /\ TwoDigits(text[6], text[7]) \in 1..12
       /\ TwoDigits(text[9], text[10]) \in
              1..DaysInMonth(TwoDigits(text[1], text[2]) * 100 + TwoDigits(text[3], text[4]),
                             TwoDigits(text[6], text[7]))
    THEN [ok |-> TRUE,
          val |-> <<[year |-> TwoDigits(text[1], text[2]) * 100 + TwoDigits(text[3], text[4]),
                     month |-> TwoDigits(text[6], text[7]),
                     day |-> TwoDigits(text[9], text[10])]>>,
          error |-> ""]
    ELSE [ok |-> TRUE, val |-> <<[year |-> 1970, month |-> 1, day |-> 1]>>, error |-> ""]

\* A calendar date in the fixed format YYYY-MM-DD, or an error.
ParseDate(text) ==
    IF ~(/\ Len(text) = 10
         /\ text[5] = "-" /\ text[8] = "-"
         /\ \A i \in {1, 2, 3, 4, 6, 7, 9, 10} : text[i] \in DigitChars)
    THEN DecodeErr("invalid date")
    ELSE LET y == TwoDigits(text[1], text[2]) * 100 + TwoDigits(text[3], text[4])
             m == TwoDigits(text[6], text[7])
             d == TwoDigits(text[9], text[10])
         IN  IF m \in 1..12 /\ d \in 1..DaysInMonth(y, m)
             THEN DecodeOk([year |-> y, month |-> m, day |-> d])
             ELSE DecodeErr("invalid date")

\* A decode error: the record and the field that failed, and why.
DecodeError(i, f, why) == [index |-> i, field |-> f, why |-> why]

\* The first field of a raw tournament that does not decode, "" if all do.
FailingField(raw) ==
    IF ~ParseId(raw.id).ok THEN "id"
    ELSE IF ~ParseDate(raw.startDate).ok THEN "startDate"
    ELSE IF ~ParseDate(raw.endDate).ok THEN "endDate"
    ELSE ""

FailingReason(raw) ==
    IF ~ParseId(raw.id).ok THEN ParseId(raw.id).error
    ELSE IF ~ParseDate(raw.startDate).ok THEN ParseDate(raw.startDate).error
    ELSE ParseDate(raw.endDate).error

\* Tournament {id, slug, start_date, end_date}
DecodeTournament(raw) ==
    [id         |-> ParseId(raw.id).val[1],
     slug       |-> raw.slug,
     start_date |-> ParseDate(raw.startDate).val[1],
     end_date   |-> ParseDate(raw.endDate).val[1]]

\* Raw tournaments as the upstream sends them.
LecSpring2022 ==
    [id |-> <<"1", "0", "7", "4", "1", "7", "0", "5", "9", "2", "6", "2", "1", "2", "0", "4", "6", "6">>,
     slug |-> "lec_spring_2022",
     startDate |-> <<"2", "0", "2", "2", "-", "0", "1", "-", "0", "1">>,
     endDate |-> <<"2", "0", "2", "2", "-", "0", "5", "-", "0", "1">>]

Msi2024 ==
    [id |-> <<"9", "8", "7", "6", "7", "9", "9", "1", "3", "2", "5", "8", "7", "8", "4", "9", "2">>,
     slug |-> "msi_2024",
     startDate |-> <<"2", "0", "2", "4", "-", "0", "2", "-", "2", "9">>,
     endDate |-> <<"2", "0", "2", "4", "-", "0", "5", "-", "1", "9">>]

LecWinter2023 ==
    [id |-> <<"1", "0", "0", "3", "5", "6", "5", "9", "0", "5", "1", "9", "3", "7", "0", "3", "1", "9">>,
     slug |-> "lec_winter_2023",
     startDate |-> <<"2", "0", "2", "3", "-", "0", "1", "-", "2", "1">>,
     endDate |-> <<"2", "0", "2", "3", "-", "0", "2", "-", "2", "6">>]

BadStartDate ==
    [id |-> <<"9", "8", "7", "6", "7", "9", "9", "1", "8", "6", "6", "4", "8", "8", "6", "9", "5">>,
     slug |-> "bad_start",
     startDate |-> <<"2", "0", "2", "2", "-", "1", "3", "-", "0", "1">>,
     endDate |-> <<"2", "0", "2", "2", "-", "0", "5", "-", "0", "1">>]

BadEndDate ==
    [id |-> <<"9", "8", "7", "6", "7", "9", "9", "1", "3", "0", "2", "9", "9", "6", "0", "1">>,
     slug |-> "bad_end",
     startDate |-> <<"2", "0", "2", "2", "-", "0", "1", "-", "0", "1">>,
     endDate |-> <<"2", "0", "2", "3", "-", "0", "2", "-", "2", "9">>]

IdOutOfRange ==
    [id |-> <<"1", "8", "4", "4", "6", "7", "4", "4", "0", "7", "3", "7", "0", "9", "5", "5", "1", "6", "1", "6">>,
     slug |-> "bad_id",
     startDate |-> <<"2", "0", "2", "2", "-", "0", "1", "-", "0", "1">>,
     endDate |-> <<"2", "0", "2", "2", "-", "0", "5", "-", "0", "1">>]

StartDateNotADate ==
    [id |-> <<"1", "0", "7", "4", "1", "7", "0", "5", "9", "2", "6", "2", "1", "2", "0", "4", "6", "6">>,
     slug |-> "no_date",
     startDate |-> <<"T", "B", "D">>,
     endDate |-> <<"2", "0", "2", "2", "-", "0", "5", "-", "0", "1">>]

RawTournaments ==
    {LecSpring2022, Msi2024, LecWinter2023, BadStartDate, BadEndDate,
     IdOutOfRange, StartDateNotADate}

\* The collections of at most MaxRecords raw tournaments.
RawCollections == UNION {[1..n -> RawTournaments] : n \in 0..MaxRecords}

\* A body arrives to be decoded; no call is under way.
DecodeInit ==
    /\ pc = [c \in Calls |-> "idle"]
    /\ url = [c \in Calls |-> NoUrl]
    /\ args = [c \in Calls |-> None]
    /\ attempts = [c \in Calls |-> InitialAttempts]
    /\ sent = [c \in Calls |-> <<>>]
    /\ inflight = [c \in Calls |-> 0]
    /\ delays = [c \in Calls |-> 0]
    /\ logs = [c \in Calls |-> <<>>]
    /\ result = [c \in Calls |-> Pending]
    /\ trace = [c \in Calls |-> <<>>]
    /\ dinput \in RawCollections
    /\ dpos = 1
    /\ dout = <<>>
    /\ dresult = Pending

\* The next record decodes: it joins the records decoded so far.
DecodeRecord ==
    /\ dresult = Pending
    /\ dpos <= Len(dinput)
    /\ FailingField(dinput[dpos]) = ""
    /\ dout' = Append(dout, DecodeTournament(dinput[dpos]))
    /\ dpos' = dpos + 1
    /\ UNCHANGED <<dinput, dresult, fetchVars>>

\* A field of the next record does not decode: the whole decode fails with an
\* error naming the field, and the records decoded so far are dropped.
DecodeRecordFails ==
    /\ dresult = Pending
    /\ dpos <= Len(dinput)
    /\ FailingField(dinput[dpos]) # ""
    /\ dresult' = Err(DecodeError(dpos, FailingField(dinput[dpos]),
                                  FailingReason(dinput[dpos])))
    /\ dout' = <<>>
    /\ UNCHANGED <<dinput, dpos, fetchVars>>

\* Every record has decoded: the collection is returned.
DecodeFinish ==
    /\ dresult = Pending
    /\ dpos > Len(dinput)
    /\ dresult' = Ok(dout)
    /\ UNCHANGED <<dinput, dpos, dout, fetchVars>>

DecodeNext == DecodeRecord \/ DecodeRecordFails \/ DecodeFinish

DecodeSpec == DecodeInit /\ [][DecodeNext]_vars

----------------------------------------------------------------------------
(* Helpers for the properties *)

NonTimeoutKinds == SendErrorKinds \ {"timeout"}

\* The positions of the events named `name` in the history of call c.
Positions(c, name) == {i \in 1..Len(trace[c]) : trace[c][i].ev = name}

\* The number of the attempt whose outcome stands at position i of c's history.
AttemptAt(c, i) == Cardinality({j \in 1..i : trace[c][j].ev = "send"})

----------------------------------------------------------------------------
(* Properties *)

\* C1: whatever the attempts' outcomes, one call sends at most 3 requests, all
\* GET: the first attempt and at most 2 retries.
C1_AtMostThreeRequests ==
    \A c \in Calls :
        /\ Len(sent[c]) <= 3
        /\ Len(sent[c]) - 1 <= 2
        /\ \A i \in 1..Len(sent[c]) : sent[c][i].method = "GET"

C1_Witness ==
    \E c \in Calls : pc[c] = "done" /\ Len(sent[c]) = 3 /\ result[c].tag = "Err"

\* C2: every attempt after the first comes right after one completed delay,
\* which follows the log of a timeout of the previous attempt; no attempt
\* follows a response or a non-timeout error, none follows another attempt
\* without a delay, and the first event of a call is its first attempt.
C2_RetryOnlyAfterTimeoutAndDelay ==
    \A c \in Calls :
        /\ Len(trace[c]) > 0 => trace[c][1].ev = "send"
        /\ \A i \in 2..Len(trace[c]) :
              trace[c][i].ev = "send" =>
                  /\ i >= 5
                  /\ trace[c][i-1].ev = "delay"
                  /\ trace[c][i-2].ev = "log"
                  /\ trace[c][i-3].ev = "timeout"
                  /\ trace[c][i-4].ev = "send"
        /\ pc[c] = "await" => delays[c] = Len(sent[c]) - 1

C2_Witness ==
    \E c \in Calls :
        /\ Len(sent[c]) = 2
        /\ delays[c] = 1
        /\ [i \in 1..Len(trace[c]) |-> trace[c][i].ev]
               = <<"send", "timeout", "log", "delay", "send">>

\* C3: an attempt that fails with a non-timeout error is never retried: it is
\* the last event of the call, which has returned Err with that error as the
\* cause; when it is the first attempt, the call made exactly one attempt and
\* incurred no delay.
C3_NonTimeoutErrorNotRetried ==
    \A c \in Calls : \A i \in 1..Len(trace[c]) :
        trace[c][i].ev \in NonTimeoutKinds =>
            /\ i = Len(trace[c])
            /\ pc[c] = "done"
            /\ result[c].tag = "Err"
            /\ result[c].val[1].cause = ReqwestError(trace[c][i].ev, AttemptAt(c, i))
            /\ AttemptAt(c, i) = Len(sent[c])
            /\ delays[c] = Len(sent[c]) - 1
            /\ AttemptAt(c, i) = 1 => Len(sent[c]) = 1 /\ delays[c] = 0

C3_Witness ==
    \E c \in Calls :
        /\ pc[c] = "done"
        /\ result[c].tag = "Err"
        /\ Len(sent[c]) = 1
        /\ delays[c] = 0
        /\ trace[c][Len(trace[c])].ev = "connect"

\* C4: when attempt N receives a response, the call has returned Ok with that
\* very response (its status, received by attempt N) and nothing follows it:
\* it is the last event, N is the number of requests sent, only the N-1 delays
\* and log lines that preceded it exist; a response to the first attempt
\* leaves exactly one request sent.
C4_ResponseEndsTheCall ==
    \A c \in Calls : \A i \in 1..Len(trace[c]) :
        trace[c][i].ev = "response" =>
            /\ i = Len(trace[c])
            /\ pc[c] = "done"
            /\ inflight[c] = 0
            /\ result[c] = Ok(Response(trace[c][i].status, AttemptAt(c, i)))
            /\ AttemptAt(c, i) = Len(sent[c])
            /\ AttemptAt(c, i) <= 3
            /\ delays[c] = Len(sent[c]) - 1
            /\ Len(logs[c]) = Len(sent[c]) - 1
            /\ i = 2 => Len(sent[c]) = 1

C4_Witness ==
    \E c \in Calls :
        /\ pc[c] = "done"
        /\ result[c].tag = "Ok"
        /\ Len(sent[c]) = 3
        /\ result[c].val[1].attempt = 3

\* C5: a call starts at attempt 0 with the full budget of 2 retries, the work
\* left to it is bounded (requests sent plus retries left never exceed 3), and
\* once started it eventually returns Ok or Err, whatever its attempts'
\* outcomes, given that attempts resolve and delays elapse.
C5_CallTerminates ==
    /\ [](\A c \in Calls :
            /\ (pc[c] = "loop" /\ sent[c] = <<>>) =>
                    (attempts[c] = 2 /\ delays[c] = 0 /\ trace[c] = <<>>)
            /\ Len(sent[c]) + attempts[c] <= 3)
    /\ \A c \in Calls :
          (pc[c] # "idle") ~> (pc[c] = "done" /\ result[c].tag \in {"Ok", "Err"})

C5_Witness ==
    \E c, d \in Calls :
        /\ pc[c] = "done" /\ result[c].tag = "Ok" /\ Len(sent[c]) = 2
        /\ pc[d] = "done" /\ result[d].tag = "Err" /\ Len(sent[d]) = 3

\* The kind of the error the last attempt of call c ended with.
LastOutcome(c) == trace[c][Len(trace[c])].ev

\* C6 as stated: every error the call returns, on every failing path, carries
\* the url, the arguments, and as cause the error of the last attempt made.
C6_EveryErrorCarriesContext ==
    \A c \in Calls :
        (pc[c] = "done" /\ result[c].tag = "Err") =>
            /\ Len(sent[c]) >= 1
            /\ result[c].val[1].context = Some([url |-> url[c], args |-> args[c]])
            /\ result[c].val[1].cause = ReqwestError(LastOutcome(c), Len(sent[c]))

\* C6 amended: every error returned after at least one attempt carries the
\* url, the arguments, and as cause the error of the last attempt made (a
\* non-timeout error, or a timeout with no retry left); the error of a failed
\* client construction is returned as it is, without url or arguments.
C6_AttemptErrorCarriesContext ==
    \A c \in Calls :
        (pc[c] = "done" /\ result[c].tag = "Err") =>
            IF Len(sent[c]) >= 1
            THEN /\ result[c].val[1].context = Some([url |-> url[c], args |-> args[c]])
                 /\ result[c].val[1].cause = ReqwestError(LastOutcome(c), Len(sent[c]))
                 /\ LastOutcome(c) \in SendErrorKinds
                 /\ LastOutcome(c) = "timeout" => Len(sent[c]) = 3
            ELSE /\ result[c].val[1].context = None
                 /\ result[c].val[1].cause.kind = "builder"

C6_Witness ==
    \E c, d \in Calls :
        /\ pc[c] = "done" /\ result[c].tag = "Err" /\ Len(sent[c]) = 2
        /\ result[c].val[1].cause = ReqwestError("redirect", 2)
        /\ args[c] # None
        /\ pc[d] = "done" /\ result[d].tag = "Err" /\ Len(sent[d]) = 3
        /\ result[d].val[1].cause = ReqwestError("timeout", 3)

\* C7: the status of a response is not looked at: a call returns Ok exactly
\* when its last attempt received a response, whatever the status (200, 404,
\* 500), with that response; the response used up no retry and caused no
\* delay (retries left and delays are those of the timeouts before it).
C7_StatusNotInspected ==
    \A c \in Calls :
        /\ \A i \in Positions(c, "response") :
              /\ trace[c][i].status \in Statuses
              /\ result[c] = Ok(Response(trace[c][i].status, Len(sent[c])))
              /\ attempts[c] = 2 - Cardinality(Positions(c, "timeout"))
              /\ delays[c] = Cardinality(Positions(c, "timeout"))
        /\ result[c].tag = "Ok" => Positions(c, "response") = {Len(trace[c])}

C7_Witness ==
    \E c, d \in Calls :
        /\ result[c] = Ok(Response(500, 1)) /\ attempts[c] = 2 /\ delays[c] = 0
        /\ result[d] = Ok(Response(404, 2)) /\ attempts[d] = 1 /\ delays[d] = 1

\* All the state of call c.
CallState(c) ==
    <<pc[c], url[c], args[c], attempts[c], sent[c], inflight[c], delays[c],
      logs[c], result[c], trace[c]>>

\* The timeouts among the outcomes of call c's own attempts.
OwnTimeouts(c) == Cardinality(Positions(c, "timeout"))

\* C8: the retry state of a call is its own: the retries it has left are 2
\* less its own timeouts that were retried, the requests it has sent and its
\* outcome follow from the outcomes of its own attempts alone, and a step of
\* one call changes nothing of any other call.
C8_RetryStatePrivate ==
    /\ [](\A c \in Calls :
            /\ attempts[c] = IF OwnTimeouts(c) <= 2 THEN 2 - OwnTimeouts(c) ELSE 0
            /\ pc[c] = "await" => Len(sent[c]) = OwnTimeouts(c) + 1
            /\ (pc[c] = "done" /\ Len(sent[c]) >= 1) =>
                  /\ Len(sent[c]) = IF OwnTimeouts(c) = 3 THEN 3 ELSE OwnTimeouts(c) + 1
                  /\ result[c].tag = IF LastOutcome(c) = "response" THEN "Ok" ELSE "Err"
                  /\ LastOutcome(c) = "timeout" => OwnTimeouts(c) = 3)
    /\ [][\A c, d \in Calls :
            (c # d /\ CallState(c)' # CallState(c)) => CallState(d)' = CallState(d)]_vars

C8_Witness ==
    \E c, d \in Calls :
        /\ pc[c] = "await" /\ attempts[c] = 0 /\ Len(sent[c]) = 3
        /\ pc[d] = "await" /\ attempts[d] = 2 /\ Len(sent[d]) = 1

\* C9: a call has at most one request in flight: one exactly while it awaits
\* send(), none otherwise; a request is sent only with none in flight, and a
\* further one only once the previous one has resolved in a timeout and the
\* delay has elapsed.
C9_OneRequestInFlight ==
    /\ [](\A c \in Calls :
            /\ inflight[c] \in {0, 1}
            /\ inflight[c] = 1 <=> pc[c] = "await"
            /\ pc[c] \in {"loop", "sleep", "done", "idle"} => inflight[c] = 0)
    /\ [][\A c \in Calls :
            Len(sent'[c]) > Len(sent[c]) =>
                /\ inflight[c] = 0
                /\ Len(sent'[c]) = Len(sent[c]) + 1
                /\ Len(sent[c]) >= 1 =>
                      /\ LastOutcome(c) = "delay"
                      /\ trace[c][Len(trace[c]) - 2].ev = "timeout"
                      /\ delays[c] = Len(sent[c])]_vars

C9_Witness ==
    \E c \in Calls :
        /\ pc[c] = "await" /\ inflight[c] = 1 /\ Len(sent[c]) = 2 /\ delays[c] = 1

\* C10: every request a call sends, the first and each retry, is a GET to the
\* url of the call with the x-api-key header, with the arguments as query when
\* arguments were given and no query when none were; the url and the
\* arguments of a started call never change.
C10_RequestUnchangedAcrossAttempts ==
    /\ [](\A c \in Calls : \A i \in 1..Len(sent[c]) :
            /\ sent[c][i].method = "GET"
            /\ sent[c][i].url = url[c]
            /\ sent[c][i].url \in URLs
            /\ args[c] \in ArgValues
            /\ sent[c][i].header =
                   <<"x-api-key", "0TvQnueqKa5mxJntVWt0w4LpLfEkrV1Ta8rQBb9Z">>
            /\ sent[c][i].query # None <=> args[c] # None
            /\ args[c] # None => sent[c][i].query = args[c]
            /\ sent[c][i] = sent[c][1])
    /\ [][\A c \in Calls :
            pc[c] # "idle" => (url'[c] = url[c] /\ args'[c] = args[c])]_vars

C10_Witness ==
    \E c, d \in Calls :
        /\ Len(sent[c]) = 3 /\ args[c] = None
        /\ Len(sent[d]) = 3 /\ args[d] # None /\ url[d] # url[c]

\* The retries call c has made: its attempts after the first.
Retries(c) == IF Len(sent[c]) = 0 THEN 0 ELSE Len(sent[c]) - 1

\* C11: every retry has its one log line, holding the url and the arguments
\* of the call: when the call has returned the lines number its retries; a line
\* is printed right after the timeout it reports and before the delay and the
\* retry that follow; printing it leaves the result of the call untouched.
C11_OneLogLinePerRetry ==
    /\ [](\A c \in Calls :
            /\ \A i \in 1..Len(logs[c]) : logs[c][i] = [url |-> url[c], args |-> args[c]]
            /\ Len(logs[c]) = Cardinality(Positions(c, "log"))
            /\ pc[c] = "done" => Len(logs[c]) = Retries(c)
            /\ pc[c] \in {"loop", "await"} => Len(logs[c]) = Retries(c)
                                                  + (IF pc[c] = "loop" /\ Len(sent[c]) > 0 THEN 1 ELSE 0)
            /\ \A i \in Positions(c, "log") :
                  /\ i > 1 /\ trace[c][i-1].ev = "timeout"
                  /\ i + 1 <= Len(trace[c]) => trace[c][i+1].ev = "delay"
                  /\ i + 2 <= Len(trace[c]) => trace[c][i+2].ev = "send"
            /\ \A i \in Positions(c, "delay") : trace[c][i-1].ev = "log")
    /\ [][\A c \in Calls :
            Len(logs'[c]) # Len(logs[c]) =>
                /\ Len(logs'[c]) = Len(logs[c]) + 1
                /\ result'[c] = result[c]
                /\ result[c] = Pending
                /\ delays'[c] = delays[c]
                /\ delays[c] = Len(logs[c])
                /\ sent'[c] = sent[c]]_vars

C11_Witness ==
    \E c \in Calls :
        /\ pc[c] = "done"
        /\ Len(logs[c]) = 2
        /\ Len(sent[c]) = 3
        /\ logs[c][2] = [url |-> "getTeams", args |-> Some(<<"hl", "en-US">>)]
        /\ result[c].tag = "Ok"

\* C14 as stated: a non-timeout error after one or two timed-out attempts
\* ends the call at once, with retry budget still remaining.
C14_NonTimeoutAfterTimeoutsBudgetRemains ==
    \A c \in Calls : \A i \in 1..Len(trace[c]) :
        (trace[c][i].ev \in NonTimeoutKinds /\ AttemptAt(c, i) >= 2) =>
            /\ i = Len(trace[c])
            /\ pc[c] = "done"
            /\ result[c].tag = "Err"
            /\ attempts[c] > 0

\* C14 amended: a non-timeout error of attempt n = 2 or 3 (after n-1 timeouts)
\* ends the call at once with Err of that error, whether or not budget is
\* left (1 retry is left after one timeout, none after two): it is the last
\* event, and requests, log lines and delays stay at n, n-1 and n-1.
C14_NonTimeoutAfterTimeoutsReturns ==
    \A c \in Calls : \A i \in 1..Len(trace[c]) :
        (trace[c][i].ev \in NonTimeoutKinds /\ AttemptAt(c, i) >= 2) =>
            /\ i = Len(trace[c])
            /\ pc[c] = "done"
            /\ result[c].tag = "Err"
            /\ result[c].val[1].cause = ReqwestError(trace[c][i].ev, AttemptAt(c, i))
            /\ OwnTimeouts(c) = AttemptAt(c, i) - 1
            /\ Len(sent[c]) = AttemptAt(c, i)
            /\ Len(logs[c]) = AttemptAt(c, i) - 1
            /\ delays[c] = AttemptAt(c, i) - 1
            /\ attempts[c] = 3 - AttemptAt(c, i)

C14_Witness ==
    \E c, d \in Calls :
        /\ pc[c] = "done" /\ attempts[c] = 1 /\ Len(sent[c]) = 2
        /\ result[c].tag = "Err" /\ result[c].val[1].cause = ReqwestError("connect", 2)
        /\ pc[d] = "done" /\ attempts[d] = 0 /\ Len(sent[d]) = 3
        /\ result[d].tag = "Err" /\ result[d].val[1].cause = ReqwestError("connect", 3)

\* The outcomes of the attempts of call c so far, in order.
Outcomes(c) ==
    LET idx == {i \in 1..Len(trace[c]) : trace[c][i].ev \in SendErrorKinds \cup {"response"}}
    IN  [n \in 1..Cardinality(idx) |->
            LET i == CHOOSE j \in idx : Cardinality({k \in idx : k <= j}) = n
            IN  trace[c][i].ev]

\* C15: a call all of whose attempts time out returns Err after exactly 3
\* requests, 2 delays and 2 log lines; the third timeout is the last event (no
\* log line, no delay after it) and is the cause of the error returned.
C15_AllTimeoutsFailAfterThree ==
    \A c \in Calls :
        /\ (pc[c] = "done" /\ Len(sent[c]) >= 1
               /\ \A n \in 1..Len(Outcomes(c)) : Outcomes(c)[n] = "timeout") =>
              /\ Len(sent[c]) = 3
              /\ delays[c] = 2
              /\ Len(logs[c]) = 2
              /\ LastOutcome(c) = "timeout"
              /\ [i \in 1..Len(trace[c]) |-> trace[c][i].ev] =
                    <<"send", "timeout", "log", "delay",
                      "send", "timeout", "log", "delay", "send", "timeout">>
              /\ result[c] = Err([context |-> Some([url |-> url[c], args |-> args[c]]),
                                  cause |-> ReqwestError("timeout", 3)])
        /\ OwnTimeouts(c) = 3 => (pc[c] = "done" /\ result[c].tag = "Err")

C15_Witness ==
    \E c \in Calls :
        /\ pc[c] = "done"
        /\ OwnTimeouts(c) = 3
        /\ delays[c] = 2
        /\ Len(logs[c]) = 2
        /\ result[c].val[1].cause = ReqwestError("timeout", 3)

\* The state machine of the design: Attempt(n), n counted up from 0, with the
\* limit of 2 retries.
SpecLimit == 2

\* Start -> Attempt(n) -> {Success | TimeoutError & n < limit: Delay ->
\* Attempt(n+1) | TimeoutError & n = limit: Fail | OtherError: Fail}
SpecTransition(n, outcome) ==
    CASE outcome = "response" -> "Success"
      [] outcome = "timeout" /\ n < SpecLimit -> "Delay"
      [] outcome = "timeout" /\ n = SpecLimit -> "Fail"
      [] OTHER -> "Fail"

\* The n of Attempt(n) call c is in: the attempts before the one in flight.
SpecAttempt(c) == Len(sent[c]) - 1

\* The transition a step of call c out of send().await has taken.
TakenTransition(c) ==
    CASE pc'[c] = "done" /\ result'[c].tag = "Ok" -> "Success"
      [] pc'[c] = "sleep" -> "Delay"
      [] pc'[c] = "done" /\ result'[c].tag = "Err" -> "Fail"
      [] OTHER -> "None"

\* C16: the loop counting retries down from 2 implements the machine counting
\* attempts up from Attempt(0) with limit 2: while a request is in flight the
\* attempts made plus the retries left are 3 (n = 2 - retries left), the call
\* starts in Attempt(0), a delay leads from Attempt(n) to Attempt(n+1), and on
\* every outcome the loop takes the transition the machine takes.
C16_LoopImplementsStateMachine ==
    /\ [](\A c \in Calls :
            /\ pc[c] = "await" =>
                  /\ Len(sent[c]) + attempts[c] = 3
                  /\ SpecAttempt(c) = SpecLimit - attempts[c]
                  /\ SpecAttempt(c) \in 0..SpecLimit
            /\ pc[c] = "sleep" => SpecAttempt(c) + 1 = SpecLimit - attempts[c]
            /\ (pc[c] = "loop" /\ sent[c] = <<>>) => attempts[c] = SpecLimit)
    /\ [][\A c \in Calls :
            (pc[c] = "await" /\ pc'[c] # "await") =>
                /\ TakenTransition(c) =
                      SpecTransition(SpecAttempt(c), trace'[c][Len(trace[c]) + 1].ev)
                /\ TakenTransition(c) = "Delay" => Len(sent'[c]) = Len(sent[c])]_vars

C16_Witness ==
    \E c, d \in Calls :
        /\ pc[c] = "await" /\ Len(sent[c]) = 3 /\ attempts[c] = 0
        /\ pc[d] = "sleep" /\ Len(sent[d]) = 2 /\ attempts[d] = 0

\* C17: the retry counter is always 0, 1 or 2; it changes only by going down
\* by exactly 1, only from a value above 0 and only in the step that handles a
\* timeout and goes on to the delay of a retry.
C17_CounterInRangeAndDecreasing ==
    /\ [](\A c \in Calls : attempts[c] \in {0, 1, 2})
    /\ [][\A c \in Calls :
            attempts'[c] # attempts[c] =>
                /\ attempts'[c] = attempts[c] - 1
                /\ attempts[c] > 0
                /\ attempts'[c] >= 0
                /\ pc[c] = "await"
                /\ pc'[c] = "sleep"
                /\ trace'[c][Len(trace[c]) + 1].ev = "timeout"]_vars

C17_Witness ==
    \E c, d \in Calls :
        /\ attempts[c] = 0 /\ pc[c] = "done" /\ OwnTimeouts(c) = 3
        /\ attempts[d] = 1 /\ pc[d] = "sleep"

\* C18: when the client cannot be built the call returns the builder's error
\* with nothing done: no request sent or in flight, no delay, no log line.
C18_BuildFailureSendsNothing ==
    \A c \in Calls :
        (result[c].tag = "Err" /\ result[c].val[1].cause.kind = "builder") =>
            /\ pc[c] = "done"
            /\ sent[c] = <<>>
            /\ inflight[c] = 0
            /\ delays[c] = 0
            /\ logs[c] = <<>>
            /\ trace[c] = <<>>

C18_Witness ==
    \E c \in Calls :
        /\ pc[c] = "done"
        /\ result[c] = Err(FromError(ReqwestError("builder", 0)))
        /\ url[c] = "getTeams"
        /\ sent[c] = <<>>

DigitChar(d) ==
    CASE d = 0 -> "0" [] d = 1 -> "1" [] d = 2 -> "2" [] d = 3 -> "3" [] d = 4 -> "4"
      [] d = 5 -> "5" [] d = 6 -> "6" [] d = 7 -> "7" [] d = 8 -> "8" [] d = 9 -> "9"

\* The 6 decimal digits of a limb.
LimbDigits(l) ==
    <<DigitChar(l \div 100000), DigitChar((l \div 10000) % 10),
      DigitChar((l \div 1000) % 10), DigitChar((l \div 100) % 10),
      DigitChar((l \div 10) % 10), DigitChar(l % 10)>>

RECURSIVE StripZeros(_)
StripZeros(t) == IF Len(t) > 1 /\ t[1] = "0" THEN StripZeros(Tail(t)) ELSE t

\* The decimal text of an identifier value.
IdText(x) ==
    StripZeros(LimbDigits(x[1]) \o LimbDigits(x[2]) \o LimbDigits(x[3]) \o LimbDigits(x[4]))

\* C12: a decoded identifier is exactly the integer its text writes, within
\* the 64-bit range: 100356590519370319, 98767991325878492 and
\* 107417059262120466 decode to those very values, the decimal text of every
\* decoded identifier is the text it was decoded from (nothing rounded or cut
\* off), and a text past the range never yields a record.
C12_LargeIdsDecodeExactly ==
    /\ \A i \in 1..Len(dout) :
          /\ IdText(dout[i].id) = dinput[i].id
          /\ LimbLeq(dout[i].id, <<9, 223372, 36854, 775807>>)
          /\ dinput[i].id = <<"1", "0", "0", "3", "5", "6", "5", "9", "0", "5", "1", "9", "3", "7", "0", "3", "1", "9">>
                => dout[i].id = <<0, 100356, 590519, 370319>>
          /\ dinput[i].id = <<"9", "8", "7", "6", "7", "9", "9", "1", "3", "2", "5", "8", "7", "8", "4", "9", "2">>
                => dout[i].id = <<0, 98767, 991325, 878492>>
          /\ dinput[i].id = <<"1", "0", "7", "4", "1", "7", "0", "5", "9", "2", "6", "2", "1", "2", "0", "4", "6", "6">>
                => dout[i].id = <<0, 107417, 59262, 120466>>
    /\ dresult.tag = "Ok" =>
          /\ dresult.val[1] = dout
          /\ Len(dout) = Len(dinput)
          /\ \A i \in 1..Len(dinput) : Len(dinput[i].id) <= 19

C12_Witness ==
    /\ dresult.tag = "Ok"
    /\ Len(dresult.val[1]) = 2
    /\ dresult.val[1][1].id = <<0, 100356, 590519, 370319>>
    /\ dresult.val[1][2].id = <<0, 98767, 991325, 878492>>

\* The date texts of the inputs that are no calendar date.
UnparsableDates ==
    {<<"2", "0", "2", "2", "-", "1", "3", "-", "0", "1">>,
     <<"2", "0", "2", "3", "-", "0", "2", "-", "2", "9">>,
     <<"T", "B", "D">>}

\* The calendar dates the date texts of the inputs write.
ExpectedDate(text) ==
    CASE text = <<"2", "0", "2", "2", "-", "0", "1", "-", "0", "1">> ->
            [year |-> 2022, month |-> 1, day |-> 1]
      [] text = <<"2", "0", "2", "2", "-", "0", "5", "-", "0", "1">> ->
            [year |-> 2022, month |-> 5, day |-> 1]
      [] text = <<"2", "0", "2", "4", "-", "0", "2", "-", "2", "9">> ->
            [year |-> 2024, month |-> 2, day |-> 29]
      [] text = <<"2", "0", "2", "4", "-", "0", "5", "-", "1", "9">> ->
            [year |-> 2024, month |-> 5, day |-> 19]
      [] text = <<"2", "0", "2", "3", "-", "0", "1", "-", "2", "1">> ->
            [year |-> 2023, month |-> 1, day |-> 21]
      [] text = <<"2", "0", "2", "3", "-", "0", "2", "-", "2", "6">> ->
            [year |-> 2023, month |-> 2, day |-> 26]

HasUnparsableDate(raw) ==
    raw.startDate \in UnparsableDates \/ raw.endDate \in UnparsableDates

\* C13: a tournament collection holding a tournament with an unparsable date
\* never decodes: the decode ends in an error naming the date field of the
\* record (startDate or endDate) unless an earlier field failed first, every
\* record decoded carries the very dates its texts write (never a default),
\* and with the error no record of the collection is returned.
C13_MalformedDateFailsWholeCollection ==
    /\ \A i \in 1..Len(dout) :
          /\ ~HasUnparsableDate(dinput[i])
          /\ dout[i].start_date = ExpectedDate(dinput[i].startDate)
          /\ dout[i].end_date = ExpectedDate(dinput[i].endDate)
    /\ dresult.tag = "Ok" => \A i \in 1..Len(dinput) : ~HasUnparsableDate(dinput[i])
    /\ (dresult # Pending /\ \E i \in 1..Len(dinput) : HasUnparsableDate(dinput[i]))
          => dresult.tag = "Err"
    /\ dresult.tag = "Err" =>
          LET e == dresult.val[1]
          IN  /\ dout = <<>>
              /\ e.index \in 1..Len(dinput)
              /\ \A j \in 1..(e.index - 1) : ~HasUnparsableDate(dinput[j])
              /\ e.field \in {"id", "startDate", "endDate"}
              /\ e.field = "startDate" <=>
                    (Len(dinput[e.index].id) <= 19
                       /\ dinput[e.index].startDate \in UnparsableDates)
              /\ e.field = "endDate" <=>
                    (Len(dinput[e.index].id) <= 19
                       /\ dinput[e.index].startDate \notin UnparsableDates
                       /\ dinput[e.index].endDate \in UnparsableDates)
              /\ e.field \in {"startDate", "endDate"} => e.why = "invalid date"

C13_Witness ==
    /\ dresult.tag = "Err"
    /\ dresult.val[1].index = 2
    /\ dresult.val[1].field = "endDate"
    /\ dinput[1].slug = "lec_spring_2022"
    /\ dout = <<>>

====
